---- MODULE Spec2Model ----
(***************************************************************************)
(* Model of the two prediction services of ml_api:                         *)
(*   app.py   model-backed /predict, /api/generate-report, /health         *)
(*   main.py  rule-based  /predict, /health                                *)
(*                                                                         *)
(* Numbers.  Vitals are kept in tenths (bp = 185 is 1850, bmi = 18.5 is    *)
(* 185), scores in halves (score 10.5 is 21) and probabilities in units of *)
(* 1e-5 (0.33 is 33000), so that every constant of the source is an        *)
(* integer.  A Python float is a record [t, v]: t = "fin" with value v, or *)
(* t in {"nan", "inf", "ninf"}.                                            *)
(***************************************************************************)
EXTENDS Integers, Sequences, FiniteSets, TLC

VARIABLES model, req, proba, resp

vars == <<model, req, proba, resp>>

\* The distance, in tenths, up to which every threshold of the scorer is
\* probed from both sides.
Spread == 1

----------------------------------------------------------------------------
(* JSON values and request bodies *)

KeyOrder == <<"bp", "heart_rate", "sugar", "bmi">>

Keys == {KeyOrder[i] : i \in 1..Len(KeyOrder)}

Num(n)  == [t |-> "num",    v |-> n]
JNull   == [t |-> "null",   v |-> 0]
JTrue   == [t |-> "bool",   v |-> 1]
JText   == [t |-> "text",   v |-> 0]   \* a non-numeric string such as "high"
JNaN    == [t |-> "nan",    v |-> 0]   \* the literal NaN, accepted by json.loads
JInf    == [t |-> "inf",    v |-> 0]   \* Infinity, or a literal such as 1e400
JNegInf == [t |-> "ninf",   v |-> 0]

Fin(n) == [t |-> "fin",  v |-> n]
FNaN   == [t |-> "nan",  v |-> 0]
FInf   == [t |-> "inf",  v |-> 0]
FNegInf == [t |-> "ninf", v |-> 0]

\* float(x): "ok" with the float, or the exception raised.
to_float(x) ==
    CASE x.t = "num"    -> [exc |-> "ok", f |-> Fin(x.v)]
      [] x.t = "bool"   -> [exc |-> "ok", f |-> Fin(10 * x.v)]
      [] x.t = "nan"    -> [exc |-> "ok", f |-> FNaN]
      [] x.t = "inf"    -> [exc |-> "ok", f |-> FInf]
      [] x.t = "ninf"   -> [exc |-> "ok", f |-> FNegInf]
      [] x.t = "null"   -> [exc |-> "TypeError",  f |-> FNaN]
      [] x.t = "text"   -> [exc |-> "ValueError", f |-> FNaN]

\* x >= c and x <= c on floats, c finite (IEEE: every comparison with NaN is false)
FGe(x, c) == \/ x.t = "inf"
             \/ x.t = "fin" /\ x.v >= c

FLe(x, c) == \/ x.t = "ninf"
             \/ x.t = "fin" /\ x.v <= c

Restrict(f, S) == [k \in S |-> f[k]]

EmptyDict == Restrict([k \in Keys |-> JNull], {})

----------------------------------------------------------------------------
(* main.py: the rule-based scorer *)

\* bp_points with "if" in place of "elif": every matching band adds its points.
bp_points_every_band(bp) ==
    (IF FGe(bp, 1800) THEN 6 ELSE 0) + (IF FGe(bp, 1600) THEN 5 ELSE 0)
    + (IF FGe(bp, 1400) THEN 4 ELSE 0) + (IF FLe(bp, 900) THEN 1 ELSE 0)

\* bp_points without the branch for low pressure (bp <= 90).
bp_points_no_low_band(bp) ==
    IF FGe(bp, 1800) THEN 6
    ELSE IF FGe(bp, 1600) THEN 5
    ELSE IF FGe(bp, 1400) THEN 4
    ELSE 0

\* Points are in halves of a score unit.
bp_points(bp) ==
    IF FGe(bp, 1800) THEN 6
    ELSE IF FGe(bp, 1600) THEN 5
    ELSE IF FGe(bp, 1400) THEN 4
    ELSE IF FLe(bp, 900) THEN 1
    ELSE 0

heart_rate_points(heart_rate) ==
    IF FGe(heart_rate, 1200) THEN 4
    ELSE IF FGe(heart_rate, 1000) THEN 3
    ELSE IF FLe(heart_rate, 500) THEN 2
    ELSE 0

sugar_points(sugar) ==
    IF FGe(sugar, 2500) THEN 6
    ELSE IF FGe(sugar, 1800) THEN 4
    ELSE IF FGe(sugar, 1260) THEN 2
    ELSE 0

bmi_points(bmi) ==
    IF FGe(bmi, 350) THEN 5
    ELSE IF FGe(bmi, 300) THEN 4
    ELSE IF FLe(bmi, 185) THEN 2
    ELSE 0

risk_score(bp, heart_rate, sugar, bmi) ==
    bp_points(bp) + heart_rate_points(heart_rate) + sugar_points(sugar) + bmi_points(bmi)

Min(a, b) == IF a <= b THEN a ELSE b
Max(a, b) == IF a >= b THEN a ELSE b

\* score (in halves) -> (label, prob before the clamp)
risk_band(score) ==
    IF score <= 4
      THEN [label |-> "Low",    prob |-> Min(35000, 15000 + 5000 * score)]
    ELSE IF score <= 8
      THEN [label |-> "Medium", prob |-> Min(70000, 45000 + 5000 * (score - 4))]
    ELSE   [label |-> "High",   prob |-> Min(95000, 70000 + 2500 * (score - 8))]

clamp_prob(prob) == Max(1000, Min(99000, prob))

compute_risk(bp, heart_rate, sugar, bmi) ==
    LET band == risk_band(risk_score(bp, heart_rate, sugar, bmi))
    IN  [label |-> band.label, prob |-> clamp_prob(band.prob)]

----------------------------------------------------------------------------
(* app.py: the bucketizer *)

\* bucketize with "<=" in place of "<": a boundary falls in the lower band.
bucketize_boundary_below(prob) ==
    IF prob <= 33000 THEN "Low"
    ELSE IF prob <= 66000 THEN "Medium"
    ELSE "High"

bucketize(prob) ==
    IF prob < 33000 THEN "Low"
    ELSE IF prob < 66000 THEN "Medium"
    ELSE "High"

\* round(x, ndigits) with unit = 10^(5 - ndigits): the nearest multiple of unit.
\* A value halfway between two multiples stands for a binary float that lies
\* just below or just above the decimal tie; up tells which.
round(x, unit, up) ==
    LET lo == x - (x % unit)
    IN  IF 2 * (x % unit) < unit THEN lo
        ELSE IF 2 * (x % unit) > unit THEN lo + unit
        ELSE IF up THEN lo + unit ELSE lo

----------------------------------------------------------------------------
(* Requests *)

\* The thresholds of the scorer, per vital, in tenths.
Thresholds(k) ==
    CASE k = "bp"         -> {900, 1400, 1600, 1800}
      [] k = "heart_rate" -> {500, 1000, 1200}
      [] k = "sugar"      -> {1260, 1800, 2500}
      [] k = "bmi"        -> {185, 300, 350}

\* The inputs of the two worked examples of the scorer.
Examples(k) ==
    CASE k = "bp"         -> {800, 1850}
      [] k = "heart_rate" -> {600, 1250}
      [] k = "sugar"      -> {700, 2600}
      [] k = "bmi"        -> {220, 360}

Probes(k) == {t + d : t \in Thresholds(k), d \in (0 - Spread)..Spread} \cup Examples(k)

NumericPayloads ==
    { [bp |-> Num(a), heart_rate |-> Num(b), sugar |-> Num(c), bmi |-> Num(d)] :
        a \in Probes("bp"), b \in Probes("heart_rate"),
        c \in Probes("sugar"), d \in Probes("bmi") }

MixedValues == {Num(1200), JNull, JTrue, JText, JNaN, JInf, JNegInf}

\* Objects with any subset of the four keys and any kind of JSON value.
MixedPayloads == UNION { [S -> MixedValues] : S \in SUBSET Keys }

\* What request.get_json finds: a JSON object, a body that is not JSON, a
\* JSON array holding none of the four key names (such as [1]), a non-zero
\* JSON number.
Bodies ==
    { [kind |-> "dict", data |-> d] : d \in NumericPayloads \cup MixedPayloads }
    \cup { [kind |-> k, data |-> EmptyDict] : k \in {"malformed", "array", "number"} }

\* What the loaded artifact does on predict_proba: returns a probability in
\* [0, 1] (units of 1e-5) or raises with some message.
ProbaGrid ==
    {0, 12345, 32996, 65996, 99004, 100000}
    \cup {t + d : t \in {33000, 66000}, d \in (0 - Spread)..Spread}

ExcTexts == {"Input contains NaN", "X has 4 features, but expecting 5"}

ModelOutcomes ==
    { [kind |-> "proba", p |-> p, up |-> FALSE, text |-> ""] : p \in ProbaGrid }
    \cup { [kind |-> "proba", p |-> p, up |-> TRUE, text |-> ""] :
             p \in {q \in ProbaGrid : q % 10 = 5} }
    \cup { [kind |-> "raise", p |-> 0, up |-> FALSE, text |-> e] : e \in ExcTexts }

\* What the PDF library does: it cannot be imported, building raises, or a
\* document comes out.
RenderOutcomes ==
    { [kind |-> k, text |-> e] : k \in {"import_error", "build_error"}, e \in ExcTexts }
    \cup { [kind |-> "ok", text |-> ""] }

----------------------------------------------------------------------------
(* Responses *)

NoInputs == Restrict([k \in Keys |-> FNaN], {})

EmptyResp ==
    [status |-> 0, kind |-> "none", risk |-> "", probability |-> 0 - 1,
     missing |-> <<>>, field |-> "", detail |-> "", loaded |-> "", inputs |-> NoInputs]

NoReq == [ep |-> "", kind |-> "none", data |-> EmptyDict]

NoProba == 0 - 1

Error(status, kind) == [EmptyResp EXCEPT !.status = status, !.kind = kind]

\* [k for k in [...] if k not in data], from the i-th key on.
RECURSIVE MissingKeys(_, _)
MissingKeys(i, data) ==
    IF i > Len(KeyOrder) THEN <<>>
    ELSE (IF KeyOrder[i] \notin DOMAIN data THEN <<KeyOrder[i]>> ELSE <<>>)
         \o MissingKeys(i + 1, data)

\* The exception of the first float() that raises, reading the keys in order.
RECURSIVE FirstFailure(_, _)
FirstFailure(i, values) ==
    IF i > Len(KeyOrder) THEN [exc |-> "ok", name |-> ""]
    ELSE IF to_float(values[KeyOrder[i]]).exc # "ok"
      THEN [exc |-> to_float(values[KeyOrder[i]]).exc, name |-> KeyOrder[i]]
    ELSE FirstFailure(i + 1, values)

----------------------------------------------------------------------------
(* app.py handlers *)

\* The response of app.py /predict and the value of its local proba.
app_predict(m, body, outcome) ==
    IF m = "None" THEN
        [resp |-> Error(500, "ModelUnavailable"), proba |-> NoProba]
    ELSE IF body.kind = "number" THEN
        \* "bp" not in 5 raises TypeError outside any try: Flask's own 500 page
        [resp |-> Error(500, "Unhandled"), proba |-> NoProba]
    ELSE
      LET data    == body.data
          missing == MissingKeys(1, data)
      IN
      IF missing # <<>> THEN
        [resp |-> [Error(400, "MissingFields") EXCEPT !.missing = missing],
         proba |-> NoProba]
      ELSE
        LET fail == FirstFailure(1, data) IN
        IF fail.exc \in {"TypeError", "ValueError"} THEN
          [resp |-> Error(400, "InvalidType"), proba |-> NoProba]
        ELSE IF outcome.kind = "raise" THEN
          [resp |-> [Error(500, "InferenceError") EXCEPT !.detail = outcome.text],
           proba |-> NoProba]
        ELSE
          LET risk == bucketize(outcome.p) IN
          [resp |-> [EmptyResp EXCEPT !.status = 200, !.kind = "Assessment",
                                      !.risk = risk,
                                      !.probability = round(outcome.p, 10, outcome.up)],
           proba |-> outcome.p]

\* The response of app.py /api/generate-report.
generate_report(outcome) ==
    IF outcome.kind = "import_error" THEN
        [Error(501, "RenderingUnavailable") EXCEPT !.detail = outcome.text]
    ELSE IF outcome.kind = "build_error" THEN
        [Error(500, "RenderingFailure") EXCEPT !.detail = outcome.text]
    ELSE [EmptyResp EXCEPT !.status = 200, !.kind = "Pdf"]

app_health(m) ==
    [EmptyResp EXCEPT !.status = 200, !.kind = "Health",
                      !.loaded = IF m # "None" THEN "true" ELSE "false"]

----------------------------------------------------------------------------
(* main.py handlers *)

\* payload.get(k): None for an absent key
Get(payload, k) == IF k \in DOMAIN payload THEN payload[k] ELSE JNull

\* The response of main.py /predict.
main_predict(body) ==
    IF body.kind = "malformed" THEN
        \* get_json(force=True, silent=False) raises BadRequest
        Error(500, "PredictionFailed")
    ELSE IF body.kind # "dict" THEN
        Error(400, "InvalidBody")
    ELSE
      LET values == [k \in Keys |-> Get(body.data, k)]
          fail   == FirstFailure(1, values)
      IN
      IF fail.exc \in {"TypeError", "ValueError"} THEN
        [Error(400, "InvalidType") EXCEPT !.field = fail.name]
      ELSE
        LET x == [k \in Keys |-> to_float(values[k]).f]
            r == compute_risk(x["bp"], x["heart_rate"], x["sugar"], x["bmi"])
        IN  [EmptyResp EXCEPT !.status = 200, !.kind = "Assessment",
                              !.risk = r.label,
                              !.probability = round(r.prob, 100, FALSE),
                              !.inputs = x]

main_health == [EmptyResp EXCEPT !.status = 200, !.kind = "Health"]

----------------------------------------------------------------------------
(* The services.  A worker takes one request, runs its handler to the end *)
(* and holds the response until the transport has sent it.                 *)

\* app.py lines 16-20: the artifact loads, or model stays None.
Init ==
    /\ model \in {"None", "artifact"}
    /\ req = NoReq
    /\ proba = NoProba
    /\ resp = EmptyResp

Idle == resp = EmptyResp

AppPredict ==
    /\ Idle
    /\ \E body \in Bodies, outcome \in ModelOutcomes :
         LET out == app_predict(model, body, outcome) IN
         /\ req' = [ep |-> "app:/predict", kind |-> body.kind, data |-> body.data]
         /\ resp' = out.resp
         /\ proba' = out.proba
    /\ UNCHANGED model

GenerateReport ==
    /\ Idle
    /\ \E kind \in {"dict", "malformed"}, outcome \in RenderOutcomes :
         /\ req' = [ep |-> "app:/api/generate-report", kind |-> kind, data |-> EmptyDict]
         /\ resp' = generate_report(outcome)
    /\ UNCHANGED <<model, proba>>

AppHealth ==
    /\ Idle
    /\ req' = [ep |-> "app:/health", kind |-> "none", data |-> EmptyDict]
    /\ resp' = app_health(model)
    /\ UNCHANGED <<model, proba>>

MainPredict ==
    /\ Idle
    /\ \E body \in Bodies :
         /\ req' = [ep |-> "main:/predict", kind |-> body.kind, data |-> body.data]
         /\ resp' = main_predict(body)
    /\ UNCHANGED <<model, proba>>

MainHealth ==
    /\ Idle
    /\ req' = [ep |-> "main:/health", kind |-> "none", data |-> EmptyDict]
    /\ resp' = main_health
    /\ UNCHANGED <<model, proba>>

\* The response leaves; the handler's locals are gone.
Reply ==
    /\ ~Idle
    /\ req' = NoReq
    /\ proba' = NoProba
    /\ resp' = EmptyResp
    /\ UNCHANGED model

Next ==
    \/ MainPredict
    \/ MainHealth
    \/ AppPredict
    \/ GenerateReport
    \/ AppHealth
    \/ Reply

Spec == Init /\ [][Next]_vars

TypeOK ==
    /\ model \in {"None", "artifact"}
    /\ resp.status \in {0, 200, 400, 500, 501}
    /\ proba \in {NoProba} \cup ProbaGrid

----------------------------------------------------------------------------
(* Properties *)

IsPredict == req.ep \in {"app:/predict", "main:/predict"}

Assessed(ep) == req.ep = ep /\ resp.kind = "Assessment"

\* The absent keys of a request object, in the fixed order.
Absent(data) == SelectSeq(KeyOrder, LAMBDA k : k \notin DOMAIN data)

\* C1: the probability of every returned assessment lies in [0.01, 0.99],
\* on the rule-based and on the model-backed path.
C1_ProbabilityClamped ==
    resp.kind = "Assessment" => resp.probability >= 1000 /\ resp.probability <= 99000

\* C2: a request with a missing or a non-numeric vital is answered with the
\* validation error (MissingFields or InvalidType), whatever the state of the
\* strategy, and never with ModelUnavailable.
C2_ValidationBeforeDispatch ==
    (/\ IsPredict
     /\ req.kind = "dict"
     /\ \E k \in Keys : k \notin DOMAIN req.data \/ req.data[k].t \in {"null", "text"})
    => resp.kind \in {"MissingFields", "InvalidType"}

\* C3: a request object that lacks some of the four keys is answered, by both
\* variants, with MissingFields listing every absent key in the order
\* bp, heart_rate, sugar, bmi.
C3_MissingFieldsListsEveryAbsentKey ==
    (IsPredict /\ req.kind = "dict" /\ DOMAIN req.data # Keys)
    => resp.kind = "MissingFields" /\ resp.missing = Absent(req.data)

\* C4: a request with all four keys, one of whose values is not coercible to a
\* finite real number (a non-numeric string, null, a boolean, NaN, an
\* infinity), is answered with InvalidType by both variants.
C4_NonFiniteIsInvalidType ==
    (/\ IsPredict
     /\ req.kind = "dict"
     /\ DOMAIN req.data = Keys
     /\ \E k \in Keys : req.data[k].t # "num")
    => resp.kind = "InvalidType"

\* C5: the label the rule-based scorer returns with a probability is the label
\* bucketize gives to that probability.
C5_ScorerAgreesWithBucketize ==
    Assessed("main:/predict") =>
      LET x == resp.inputs
          r == compute_risk(x["bp"], x["heart_rate"], x["sugar"], x["bmi"])
      IN  /\ bucketize(r.prob) = r.label
          /\ bucketize(resp.probability) = resp.risk

\* The table of the scorer: <<comparison, threshold in tenths, points in halves>>.
BandTable(k) ==
    CASE k = "bp"         -> {<<"ge", 1800, 6>>, <<"ge", 1600, 5>>, <<"ge", 1400, 4>>, <<"le", 900, 1>>}
      [] k = "heart_rate" -> {<<"ge", 1200, 4>>, <<"ge", 1000, 3>>, <<"le", 500, 2>>}
      [] k = "sugar"      -> {<<"ge", 2500, 6>>, <<"ge", 1800, 4>>, <<"ge", 1260, 2>>}
      [] k = "bmi"        -> {<<"ge", 350, 5>>, <<"ge", 300, 4>>, <<"le", 185, 2>>}

Matches(band, x) == IF band[1] = "ge" THEN FGe(x, band[2]) ELSE FLe(x, band[2])

\* The points of the single highest band the value matches, 0 when it matches none.
TablePoints(k, x) ==
    LET pts == {band[3] : band \in {b \in BandTable(k) : Matches(b, x)}} \cup {0}
    IN  CHOOSE p \in pts : \A q \in pts : q <= p

TableScore(x) ==
    TablePoints("bp", x["bp"]) + TablePoints("heart_rate", x["heart_rate"])
    + TablePoints("sugar", x["sugar"]) + TablePoints("bmi", x["bmi"])

TableLabel(score) ==
    CASE score <= 4               -> "Low"
      [] score > 4 /\ score <= 8  -> "Medium"
      [] score > 8                -> "High"

TableProbability(score) ==
    CASE score <= 4               -> Min(35000, 15000 + 5000 * score)
      [] score > 4 /\ score <= 8  -> Min(70000, 45000 + 5000 * (score - 4))
      [] score > 8                -> Min(95000, 70000 + 2500 * (score - 8))

MaxSeverity == [bp |-> Fin(1850), heart_rate |-> Fin(1250), sugar |-> Fin(2600), bmi |-> Fin(360)]

MinSeverity == [bp |-> Fin(800), heart_rate |-> Fin(600), sugar |-> Fin(700), bmi |-> Fin(220)]

\* C6: the scorer adds, per vital, the points of the single highest matching
\* band of the table, so the score lies between 0 and 10.5; the label and the
\* probability are those of the band mapping of the score; bp=185, hr=125,
\* glucose=260, bmi=36 gives score 10.5, High, 0.95.
C6_ScoreTable ==
    Assessed("main:/predict") =>
      LET x == resp.inputs
          s == TableScore(x)
      IN  /\ risk_score(x["bp"], x["heart_rate"], x["sugar"], x["bmi"]) = s
          /\ s >= 0 /\ s <= 21
          /\ resp.risk = TableLabel(s)
          /\ resp.probability = TableProbability(s)
          /\ x = MaxSeverity =>
               s = 21 /\ resp.risk = "High" /\ resp.probability = 95000

C6_Witness ==
    /\ Assessed("main:/predict")
    /\ resp.inputs = MaxSeverity
    /\ resp.risk = "High"
    /\ resp.probability = 95000

\* C7 as stated: for bp=80, hr=60, glucose=70, bmi=22 the score is 0, the
\* label Low and the probability 0.15.
C7_MinSeverityScoresZero ==
    (Assessed("main:/predict") /\ resp.inputs = MinSeverity) =>
      /\ risk_score(Fin(800), Fin(600), Fin(700), Fin(220)) = 0
      /\ resp.risk = "Low"
      /\ resp.probability = 15000

\* C7 amended: for bp=80, hr=60, glucose=70, bmi=22 the score is 0.5 (bp <= 90
\* earns 0.5), the label Low and the probability 0.20.
C7_MinSeverityScoresHalf ==
    (Assessed("main:/predict") /\ resp.inputs = MinSeverity) =>
      /\ risk_score(Fin(800), Fin(600), Fin(700), Fin(220)) = 1
      /\ resp.risk = "Low"
      /\ resp.probability = 20000

C7_Witness ==
    /\ Assessed("main:/predict")
    /\ resp.inputs = MinSeverity
    /\ resp.probability = 20000

\* C8: the label of a model-backed assessment is Low for a model probability
\* below 0.33, Medium from 0.33 up to but not including 0.66, High from 0.66
\* on, for every probability in [0, 1]; it is decided on the unrounded
\* probability.
C8_BucketizeBands ==
    Assessed("app:/predict") =>
      /\ proba >= 0 /\ proba <= 100000
      /\ resp.risk \in {"Low", "Medium", "High"}
      /\ resp.risk = "Low" <=> proba < 33000
      /\ resp.risk = "Medium" <=> (proba >= 33000 /\ proba < 66000)
      /\ resp.risk = "High" <=> proba >= 66000

\* A model probability just below 0.33 that is reported as 0.33 and is Low.
C8_Witness ==
    /\ Assessed("app:/predict")
    /\ proba = 32996
    /\ resp.probability = 33000
    /\ resp.risk = "Low"

\* C9: no error response carries the text of an internal exception.
C9_NoExceptionText ==
    resp.status >= 400 => resp.detail = ""

\* C10: every assessment reports the probability rounded to 3 decimal places,
\* and its label is decided from the probability before rounding.
C10_ThreeDecimals ==
    /\ resp.kind = "Assessment" => resp.probability % 100 = 0
    /\ Assessed("app:/predict") => resp.risk = bucketize(proba)
    /\ Assessed("main:/predict") =>
         resp.risk = compute_risk(resp.inputs["bp"], resp.inputs["heart_rate"],
                                  resp.inputs["sugar"], resp.inputs["bmi"]).label

====
